---- MODULE Spec2Model ----
(***************************************************************************)
(* The contact-form submission pipeline of                                 *)
(* src/frontend/src/components/ContactForm.jsx as a state machine.         *)
(*                                                                         *)
(* Strings are sequences of one-character strings, so that trim, length    *)
(* and the regular expressions of validateField are computed and not       *)
(* assumed.  A JavaScript object is a function whose DOMAIN is its set of   *)
(* keys.  A key bound to undefined is represented as an absent key: every  *)
(* read of formState.validationErrors in the component is obj[key], which  *)
(* yields undefined in both cases.                                         *)
(*                                                                         *)
(* React commits the state updates queued by one event handler (or by one  *)
(* continuation of an async handler) together, applying the updater        *)
(* functions in order to the latest state; one action is one such commit.  *)
(***************************************************************************)
EXTENDS Integers, Sequences, FiniteSets, TLC

VARIABLES formData, formState, sessionId, pending, clock,
          call,       \* a direct call of validateField: its arguments and result
          appMounted, \* App is on the page
          showDemo,   \* App: const [showDemo, setShowDemo] = useState(false)
          stats,      \* App: const [stats, setStats] = useState({...})
          interval,   \* the timers of setInterval that are not cleared
          orphaned    \* requests in flight whose ContactForm is unmounted

appVars == <<appMounted, showDemo, stats, interval, orphaned>>

vars == <<formData, formState, sessionId, pending, clock, call, appVars>>

-----------------------------------------------------------------------------
(* Bounds and sample inputs *)

\* Largest value Date.now() returns in a behaviour.
MaxNow == 1

Null == "null"
Undefined == "undefined"

EmptyString == <<>>
EmptyObject == [k \in {} |-> Undefined]

\* Math.random().toString(36).substr(2, 9)
RandomSuffixes == {"k3j9x0q2a", "z81mfp04c"}

SampleName == <<"A", "l">>
SampleEmail == <<"a", "@", "b", ".", "c">>
SampleBadEmail == <<"a", "b">>
SampleCompany == <<"C", "o">>
SampleBadPhone == <<"0", "1">>
SampleMessage == <<"I", "n", "t", "e", "r", "e", "s", "t", "e", "d">>

TextFields == {"name", "email", "company", "phone", "message"}
CheckboxFields == {"consent_marketing", "consent_data_processing"}
FieldNames == TextFields \cup {"preferred_contact_method"} \cup CheckboxFields

\* <SelectItem value="email">, <SelectItem value="phone">, <SelectItem value="both">
ContactMethods ==
    {<<"e", "m", "a", "i", "l">>, <<"p", "h", "o", "n", "e">>, <<"b", "o", "t", "h">>}

SampleContactMethod == <<"e", "m", "a", "i", "l">>

\* What the user can type, select or tick in each control.
InputValues(name) ==
    CASE name = "name" -> {EmptyString, SampleName}
      [] name = "email" -> {EmptyString, SampleEmail, SampleBadEmail}
      [] name = "company" -> {EmptyString, SampleCompany}
      [] name = "phone" -> {EmptyString, SampleBadPhone}
      [] name = "message" -> {EmptyString, SampleMessage}
      [] name = "preferred_contact_method" -> {SampleContactMethod}
      [] OTHER -> BOOLEAN

-----------------------------------------------------------------------------
(* String helpers: String.prototype.trim, RegExp.prototype.test *)

WhiteSpace == {" ", "\t", "\n"}
Digits == {"0", "1", "2", "3", "4", "5", "6", "7", "8", "9"}

SetMin(S) == CHOOSE x \in S : \A y \in S : x <= y
SetMax(S) == CHOOSE x \in S : \A y \in S : x >= y

Trim(s) ==
    LET keep == {i \in 1..Len(s) : s[i] \notin WhiteSpace}
    IN  IF keep = {} THEN EmptyString ELSE SubSeq(s, SetMin(keep), SetMax(keep))

\* [^\s@]+ over s[from..to]
IsLocalRun(s, from, to) ==
    /\ from <= to
    /\ \A i \in from..to : s[i] \notin WhiteSpace \cup {"@"}

\* /^[^\s@]+@[^\s@]+\.[^\s@]+$/.test(s)
emailRegexTest(s) ==
    \E i \in 1..Len(s), j \in 1..Len(s) :
        /\ s[i] = "@"
        /\ s[j] = "."
        /\ IsLocalRun(s, 1, i - 1)
        /\ IsLocalRun(s, i + 1, j - 1)
        /\ IsLocalRun(s, j + 1, Len(s))

\* s.replace(/[\s\-\(\)]/g, '')
StripPhone(s) == SelectSeq(s, LAMBDA c : c \notin WhiteSpace \cup {"-", "(", ")"})

\* /^[\+]?[\d]{1,16}$/.test(s): any first digit
phoneRegexTestAnyFirstDigit(s) ==
    LET d == IF Len(s) > 0 /\ s[1] = "+" THEN Tail(s) ELSE s
    IN  /\ Len(d) >= 1
        /\ Len(d) <= 16
        /\ \A i \in 1..Len(d) : d[i] \in Digits

\* /^[\+]?[1-9][\d]{0,15}$/.test(s)
phoneRegexTest(s) ==
    LET d == IF Len(s) > 0 /\ s[1] = "+" THEN Tail(s) ELSE s
    IN  /\ Len(d) >= 1
        /\ Len(d) <= 16
        /\ d[1] \in Digits \ {"0"}
        /\ \A i \in 2..Len(d) : d[i] \in Digits

-----------------------------------------------------------------------------
(* Validation Engine *)

\* A validateField that reads "less than 100 characters" literally: a value
\* of exactly the maximum length is refused
validateFieldExclusiveMax(name, value) ==
    LET trimmed == Trim(value)
    IN  CASE name = "name" ->
               IF trimmed = EmptyString THEN "name" :> "Name is required"
               ELSE IF Len(trimmed) < 2
                    THEN "name" :> "Name must be at least 2 characters"
               ELSE IF Len(trimmed) >= 100
                    THEN "name" :> "Name must be less than 100 characters"
               ELSE EmptyObject
          [] name = "email" ->
               IF trimmed = EmptyString THEN "email" :> "Email is required"
               ELSE IF ~emailRegexTest(value)
                    THEN "email" :> "Please enter a valid email address"
               ELSE EmptyObject
          [] name = "company" ->
               IF trimmed = EmptyString THEN "company" :> "Company is required"
               ELSE IF Len(trimmed) < 2
                    THEN "company" :> "Company name must be at least 2 characters"
               ELSE IF Len(trimmed) >= 100
                    THEN "company" :> "Company name must be less than 100 characters"
               ELSE EmptyObject
          [] name = "phone" ->
               IF value # EmptyString /\ ~phoneRegexTest(StripPhone(value))
               THEN "phone" :> "Please enter a valid phone number"
               ELSE EmptyObject
          [] name = "message" ->
               IF trimmed = EmptyString THEN "message" :> "Message is required"
               ELSE IF Len(trimmed) < 10
                    THEN "message" :> "Message must be at least 10 characters"
               ELSE IF Len(trimmed) >= 2000
                    THEN "message" :> "Message must be less than 2000 characters"
               ELSE EmptyObject
          [] name = "preferred_contact_method" ->
               IF value = EmptyString
               THEN "preferred_contact_method" :> "Please select a preferred contact method"
               ELSE EmptyObject
          [] OTHER -> EmptyObject

\* A validateField that checks the contact method against the three options
validateFieldEnumerated(name, value) ==
    LET trimmed == Trim(value)
    IN  CASE name = "name" ->
               IF trimmed = EmptyString THEN "name" :> "Name is required"
               ELSE IF Len(trimmed) < 2
                    THEN "name" :> "Name must be at least 2 characters"
               ELSE IF Len(trimmed) > 100
                    THEN "name" :> "Name must be less than 100 characters"
               ELSE EmptyObject
          [] name = "email" ->
               IF trimmed = EmptyString THEN "email" :> "Email is required"
               ELSE IF ~emailRegexTest(value)
                    THEN "email" :> "Please enter a valid email address"
               ELSE EmptyObject
          [] name = "company" ->
               IF trimmed = EmptyString THEN "company" :> "Company is required"
               ELSE IF Len(trimmed) < 2
                    THEN "company" :> "Company name must be at least 2 characters"
               ELSE IF Len(trimmed) > 100
                    THEN "company" :> "Company name must be less than 100 characters"
               ELSE EmptyObject
          [] name = "phone" ->
               IF value # EmptyString /\ ~phoneRegexTest(StripPhone(value))
               THEN "phone" :> "Please enter a valid phone number"
               ELSE EmptyObject
          [] name = "message" ->
               IF trimmed = EmptyString THEN "message" :> "Message is required"
               ELSE IF Len(trimmed) < 10
                    THEN "message" :> "Message must be at least 10 characters"
               ELSE IF Len(trimmed) > 2000
                    THEN "message" :> "Message must be less than 2000 characters"
               ELSE EmptyObject
          [] name = "preferred_contact_method" ->
               IF value \notin ContactMethods
               THEN "preferred_contact_method" :> "Please select a preferred contact method"
               ELSE EmptyObject
          [] OTHER -> EmptyObject

\* const validateField = (name, value) => {...}
validateField(name, value) ==
    LET trimmed == Trim(value)
    IN  CASE name = "name" ->
               IF trimmed = EmptyString THEN "name" :> "Name is required"
               ELSE IF Len(trimmed) < 2
                    THEN "name" :> "Name must be at least 2 characters"
               ELSE IF Len(trimmed) > 100
                    THEN "name" :> "Name must be less than 100 characters"
               ELSE EmptyObject
          [] name = "email" ->
               IF trimmed = EmptyString THEN "email" :> "Email is required"
               ELSE IF ~emailRegexTest(value)
                    THEN "email" :> "Please enter a valid email address"
               ELSE EmptyObject
          [] name = "company" ->
               IF trimmed = EmptyString THEN "company" :> "Company is required"
               ELSE IF Len(trimmed) < 2
                    THEN "company" :> "Company name must be at least 2 characters"
               ELSE IF Len(trimmed) > 100
                    THEN "company" :> "Company name must be less than 100 characters"
               ELSE EmptyObject
          [] name = "phone" ->
               IF value # EmptyString /\ ~phoneRegexTest(StripPhone(value))
               THEN "phone" :> "Please enter a valid phone number"
               ELSE EmptyObject
          [] name = "message" ->
               IF trimmed = EmptyString THEN "message" :> "Message is required"
               ELSE IF Len(trimmed) < 10
                    THEN "message" :> "Message must be at least 10 characters"
               ELSE IF Len(trimmed) > 2000
                    THEN "message" :> "Message must be less than 2000 characters"
               ELSE EmptyObject
          [] name = "preferred_contact_method" ->
               IF value = EmptyString
               THEN "preferred_contact_method" :> "Please select a preferred contact method"
               ELSE EmptyObject
          [] OTHER -> EmptyObject

\* Object.keys(formData), in insertion order
FormKeys ==
    <<"name", "email", "company", "phone", "message",
      "preferred_contact_method", "consent_marketing", "consent_data_processing">>

\* Object.assign(target, source): source's entries win
ObjectAssign(target, source) == source @@ target

RECURSIVE CollectFieldErrors(_, _, _)
CollectFieldErrors(fd, i, errors) ==
    IF i > Len(FormKeys) THEN errors
    ELSE IF FormKeys[i] # "phone"
         THEN CollectFieldErrors(fd, i + 1,
                  ObjectAssign(errors, validateField(FormKeys[i], fd[FormKeys[i]])))
         ELSE CollectFieldErrors(fd, i + 1, errors)

\* A validateForm that validates the phone like every other field
validateFormChecksPhone(fd) ==
    LET errors == ObjectAssign(CollectFieldErrors(fd, 1, EmptyObject),
                               validateField("phone", fd.phone))
    IN  IF ~fd.consent_data_processing
        THEN ObjectAssign(errors,
                 "consent_data_processing" :> "Data processing consent is required")
        ELSE errors

\* A validateForm without the consent check
validateFormIgnoresConsent(fd) == CollectFieldErrors(fd, 1, EmptyObject)

validateForm(fd) ==
    LET errors == CollectFieldErrors(fd, 1, EmptyObject)
    IN  IF ~fd.consent_data_processing
        THEN ObjectAssign(errors,
                 "consent_data_processing" :> "Data processing consent is required")
        ELSE errors

-----------------------------------------------------------------------------
(* validateField called on its own: arguments drawn from sample strings *)

\* No call of validateField outside the component.
NoCall == [name |-> "", value |-> EmptyString, returned |-> FALSE,
           errors |-> EmptyObject]

\* c repeated n times
Repeat(c, n) == [i \in 1..n |-> c]

\* s with white space around it
Padded(s) == <<" ", "\t">> \o s \o <<" ">>

\* Strings whose trimmed length sits on and around the two limits of a
\* length rule, with and without surrounding white space.
LengthSamples(min, max) ==
    {Repeat("x", n) : n \in {0, 1, min - 1, min, min + 1, max - 1, max, max + 1}}
        \cup {Padded(Repeat("x", n)) : n \in {0, min - 1, min, max, max + 1}}

EmailSamples ==
    {EmptyString, <<" ", " ">>, SampleEmail, SampleBadEmail,
     <<" ">> \o SampleEmail, <<"a", "@", "b">>, <<"a", " ", "b", "@", "c", ".", "d">>,
     <<"a", "@", "@", "b", ".", "c">>}

PhoneSamples ==
    {EmptyString, <<" ">>, <<"+">>, <<"0">>, <<"1">>, <<"+", "1">>, <<"+", "0">>,
     SampleBadPhone, <<"+", "0", "1">>, <<"+", "+", "1">>, <<"1", "a">>, <<"-">>,
     <<"(", "1", ")", " ", "2", "-", "3">>, <<"9", "0", "0">>,
     Repeat("1", 16), Repeat("1", 17), <<"+">> \o Repeat("1", 16),
     <<"+">> \o Repeat("1", 17), <<"0">> \o Repeat("1", 15)}

ContactMethodSamples ==
    ContactMethods \cup {EmptyString, <<" ">>, <<"f", "a", "x">>, <<"E", "m", "a", "i", "l">>}

ValidatedNames == TextFields \cup {"preferred_contact_method"}

\* The values validateField is called with, per field name.
CallValues(name) ==
    CASE name = "name" -> LengthSamples(2, 100)
      [] name = "company" -> LengthSamples(2, 100)
      [] name = "message" -> LengthSamples(10, 2000)
      [] name = "email" -> EmailSamples
      [] name = "phone" -> PhoneSamples
      [] name = "preferred_contact_method" -> ContactMethodSamples

-----------------------------------------------------------------------------
(* Component state *)

NoTime == <<>>
Stamp(t) == <<t>>

InitialFormData ==
    [name |-> EmptyString, email |-> EmptyString, company |-> EmptyString,
     phone |-> EmptyString, message |-> EmptyString,
     preferred_contact_method |-> EmptyString,
     consent_marketing |-> FALSE, consent_data_processing |-> FALSE]

InitialFormState ==
    [isSubmitting |-> FALSE, isSubmitted |-> FALSE, error |-> Null,
     validationErrors |-> EmptyObject, submissionStartTime |-> NoTime,
     eventId |-> Null, correlationId |-> Null]

\* useState({eventsProcessed: 0, avgResponseTime: 0, systemHealth: 'healthy'})
InitialStats ==
    [eventsProcessed |-> 0, avgResponseTime |-> 0, systemHealth |-> "healthy"]

\* App is mounted with the demo view open and its ticker set; no tick yet.
DemoOpen ==
    /\ appMounted = TRUE
    /\ showDemo = TRUE
    /\ stats = InitialStats
    /\ interval = {1}
    /\ orphaned = {}

\* `sess_${Date.now()}_${Math.random().toString(36).substr(2, 9)}`
GenerateSessionId(t, r) == <<"sess", t, r>>

\* Date.now(): the wall clock read now or later, never earlier; time is counted
\* from the Date.now() of the mount
DateNow == clock..MaxNow

-----------------------------------------------------------------------------
(* The transport: fetch('/api/contact') and response.json() *)

FormVersion == "1.0.0"
FallbackMessage == "Failed to submit form"

Statuses == {200, 299, 300, 422}

\* A response.ok that takes every status from 200 up as a success
ResponseOkNoUpperBound(status) == status >= 200

\* response.ok
ResponseOk(status) == status >= 200 /\ status <= 299

JsonObject(obj) == [kind |-> "object", obj |-> obj]
JsonNull == [kind |-> "null"]

AckBody == JsonObject([event_id |-> "ev-1", correlation_id |-> "corr-1"])
RejectBody == JsonObject([error |-> "duplicate submission"])
EmptyErrorBody == JsonObject([error |-> ""])
EmptyBody == JsonObject(EmptyObject)

\* What response.json() can resolve to: the backend is a black box
ResultBodies == {AckBody, RejectBody, EmptyErrorBody, EmptyBody, JsonNull}

\* error.message of what fetch() rejects with
FetchErrorMessages == {"Failed to fetch"}
\* error.message of what response.json() rejects with
JsonErrorMessages == {"Unexpected end of JSON input"}
\* error.message of the TypeError of a property read on null
NullReadMessage(key) ==
    IF key = "event_id" THEN "Cannot read properties of null (reading 'event_id')"
    ELSE "Cannot read properties of null (reading 'error')"

\* obj[key]
Get(obj, key) == IF key \in DOMAIN obj THEN obj[key] ELSE Undefined

\* JavaScript truthiness of a string-or-undefined value
Truthy(v) == v # Undefined /\ v # ""

-----------------------------------------------------------------------------
(* State updaters of handleSubmit and their outcomes *)

\* An entry into Submitting that leaves the last failure message in place
BeginSubmitKeepsError(prev, t) ==
    [prev EXCEPT !.isSubmitting = TRUE, !.submissionStartTime = Stamp(t)]

\* setFormState(prev => ({...prev, isSubmitting: true, error: null, submissionStartTime}))
BeginSubmit(prev, t) ==
    [prev EXCEPT !.isSubmitting = TRUE, !.error = Null,
                 !.submissionStartTime = Stamp(t)]

\* A rejection that merges the new errors into the old ones instead of replacing them
RejectInvalidMerging(prev, errors) ==
    [prev EXCEPT !.isSubmitting = FALSE,
                 !.validationErrors = errors @@ prev.validationErrors]

\* A rejection that also raises the failure banner
RejectInvalidSetsError(prev, errors) ==
    [prev EXCEPT !.isSubmitting = FALSE, !.validationErrors = errors,
                 !.error = "Please correct the highlighted fields"]

\* setFormState(prev => ({...prev, isSubmitting: false, validationErrors}))
RejectInvalid(prev, errors) ==
    [prev EXCEPT !.isSubmitting = FALSE, !.validationErrors = errors]

\* A payload that stamps each request with an identity derived from its timing
BuildPayloadOwnSession(fd, sid, duration) ==
    [form_data |-> fd,
     metadata |-> [session_id |-> <<"sess", duration, "request">>,
                   form_version |-> FormVersion,
                   submission_duration_ms |-> duration]]

\* A payload whose duration is the subtraction taken the wrong way round
BuildPayloadDurationBackwards(fd, sid, duration) ==
    [form_data |-> fd,
     metadata |-> [session_id |-> sid, form_version |-> FormVersion,
                   submission_duration_ms |-> 0 - duration]]

\* the payload of the request
BuildPayload(fd, sid, duration) ==
    [form_data |-> fd,
     metadata |-> [session_id |-> sid, form_version |-> FormVersion,
                   submission_duration_ms |-> duration]]

\* A success updater that forgets isSubmitting: false
OnAcknowledgedStillSubmitting(prev, obj) ==
    [prev EXCEPT !.isSubmitted = TRUE,
                 !.eventId = Get(obj, "event_id"),
                 !.correlationId = Get(obj, "correlation_id")]

\* setFormState(prev => ({...prev, isSubmitting: false, isSubmitted: true, eventId, correlationId}))
OnAcknowledged(prev, obj) ==
    [prev EXCEPT !.isSubmitting = FALSE, !.isSubmitted = TRUE,
                 !.eventId = Get(obj, "event_id"),
                 !.correlationId = Get(obj, "correlation_id")]

\* A catch block that also wipes the validation errors
OnCaughtClearsErrors(prev, message) ==
    [prev EXCEPT !.isSubmitting = FALSE, !.error = message,
                 !.validationErrors = EmptyObject]

\* A catch block that records the message but forgets isSubmitting: false
OnCaughtStillSubmitting(prev, message) ==
    [prev EXCEPT !.error = message]

\* catch (error): setFormState(prev => ({...prev, isSubmitting: false, error: error.message}))
OnCaught(prev, message) ==
    [prev EXCEPT !.isSubmitting = FALSE, !.error = message]

\* A rejection that always shows the fallback text
RejectionMessageAlwaysFallback(obj) == FallbackMessage

\* new Error(result.error || 'Failed to submit form').message
RejectionMessage(obj) ==
    IF Truthy(Get(obj, "error")) THEN Get(obj, "error") ELSE FallbackMessage

\* The body of the try block after `const result = await response.json()`
AfterJson(prev, status, body) ==
    IF ResponseOk(status)
    THEN IF body.kind = "null"
         THEN OnCaught(prev, NullReadMessage("event_id"))
         ELSE OnAcknowledged(prev, body.obj)
    ELSE IF body.kind = "null"
         THEN OnCaught(prev, NullReadMessage("error"))
         ELSE OnCaught(prev, RejectionMessage(body.obj))

-----------------------------------------------------------------------------
(* What the rendered view lets the user do *)

\* `if (showDemo) return (... <ContactForm /> ...)`
FormMounted == appMounted /\ showDemo

\* A form that stays on screen next to the success view
FormAlwaysRendered == TRUE

\* `if (formState.isSubmitted) return (<thank-you view>)`
FormRendered == FormMounted /\ ~formState.isSubmitted

\* Controls that stay enabled during a submission
ControlsNeverDisabled == TRUE

\* disabled={formState.isSubmitting} on every input, select and checkbox
ControlsEnabled == ~formState.isSubmitting

\* A submit button that stays enabled during a submission
SubmitButtonNeverDisabled == TRUE

\* A submit button that also stays disabled while the failure banner shows
SubmitButtonDisabledAfterFailure ==
    ~formState.isSubmitting /\ formState.error = Null

\* disabled={formState.isSubmitting} on the submit button
SubmitButtonEnabled == ~formState.isSubmitting

\* The "Submit Another Message" button exists only in the thank-you view
ResetButtonRendered == FormMounted /\ formState.isSubmitted

-----------------------------------------------------------------------------
(* Actions *)

Init ==
    /\ clock = 0
    /\ \E r \in RandomSuffixes : sessionId = GenerateSessionId(0, r)
    /\ formData = InitialFormData
    /\ formState = InitialFormState
    /\ pending = {}
    /\ call = NoCall
    /\ DemoOpen

\* {...obj, [name]: undefined}
ClearKey(obj, name) == [k \in DOMAIN obj \ {name} |-> obj[k]]

\* An edit that validates the new value at once
handleInputChangeRevalidates(name, value) ==
    /\ FormRendered
    /\ ControlsEnabled
    /\ formData' = [formData EXCEPT ![name] = value]
    /\ formState' = [formState EXCEPT !.validationErrors =
                        ObjectAssign(ClearKey(@, name), validateField(name, value))]
    /\ UNCHANGED <<sessionId, pending, clock, call, appVars>>

\* An edit that leaves the field's old error in place
handleInputChangeKeepsError(name, value) ==
    /\ FormRendered
    /\ ControlsEnabled
    /\ formData' = [formData EXCEPT ![name] = value]
    /\ UNCHANGED <<formState, sessionId, pending, clock, call, appVars>>

handleInputChange(name, value) ==
    /\ FormRendered
    /\ ControlsEnabled
    /\ formData' = [formData EXCEPT ![name] = value]
    /\ formState' =
          IF name \in DOMAIN formState.validationErrors
          THEN [formState EXCEPT !.validationErrors = ClearKey(@, name)]
          ELSE formState
    /\ UNCHANGED <<sessionId, pending, clock, call, appVars>>

\* A blur that publishes the field's errors in place of the whole error set
handleBlurReplacing(name) ==
    /\ FormRendered
    /\ ControlsEnabled
    /\ formState' = [formState EXCEPT !.validationErrors =
                        validateField(name, formData[name])]
    /\ UNCHANGED <<formData, sessionId, pending, clock, call, appVars>>

handleBlur(name) ==
    /\ FormRendered
    /\ ControlsEnabled
    /\ formState' = [formState EXCEPT !.validationErrors =
                        ObjectAssign(@, validateField(name, formData[name]))]
    /\ UNCHANGED <<formData, sessionId, pending, clock, call, appVars>>

FreshId == SetMin({i \in 1..(Cardinality(pending) + 1) : \A r \in pending : r.id # i})

handleSubmit ==
    /\ FormRendered
    /\ SubmitButtonEnabled
    /\ \E t1 \in DateNow :
          LET started == BeginSubmit(formState, t1)
              validationErrors == validateForm(formData)
          IN  IF DOMAIN validationErrors # {}
              THEN /\ formState' = RejectInvalid(started, validationErrors)
                   /\ clock' = t1
                   /\ UNCHANGED pending
              ELSE \E t2 \in t1..MaxNow :
                   /\ formState' = started
                   /\ clock' = t2
                   /\ pending' = pending \cup
                         {[id |-> FreshId, stage |-> "fetch",
                           payload |-> BuildPayload(formData, sessionId, t2 - t1)]}
    /\ UNCHANGED <<formData, sessionId, call, appVars>>

\* fetch() resolves with a response of some status
FetchResolved(r, status) ==
    /\ r \in pending
    /\ r.stage = "fetch"
    /\ pending' = (pending \ {r}) \cup
          {[id |-> r.id, stage |-> "json", payload |-> r.payload, status |-> status]}
    /\ UNCHANGED <<formData, formState, sessionId, clock, call, appVars>>

\* fetch() rejects: the catch block runs
FetchRejected(r, message) ==
    /\ r \in pending
    /\ r.stage = "fetch"
    /\ pending' = pending \ {r}
    /\ formState' = OnCaught(formState, message)
    /\ UNCHANGED <<formData, sessionId, clock, call, appVars>>

\* response.json() resolves with the parsed body
JsonResolved(r, body) ==
    /\ r \in pending
    /\ r.stage = "json"
    /\ pending' = pending \ {r}
    /\ formState' = AfterJson(formState, r.status, body)
    /\ UNCHANGED <<formData, sessionId, clock, call, appVars>>

\* A catch block that sends the request again by itself
JsonRejectedRetries(r, message) ==
    /\ r \in pending
    /\ r.stage = "json"
    /\ pending' = (pending \ {r}) \cup
          {[id |-> r.id, stage |-> "fetch", payload |-> r.payload]}
    /\ UNCHANGED <<formData, formState, sessionId, clock, call, appVars>>

\* response.json() rejects (the body is not JSON): the catch block runs
JsonRejected(r, message) ==
    /\ r \in pending
    /\ r.stage = "json"
    /\ pending' = pending \ {r}
    /\ formState' = OnCaught(formState, message)
    /\ UNCHANGED <<formData, sessionId, clock, call, appVars>>

\* A reset that forgets setFormData
resetFormKeepsFormData ==
    /\ ResetButtonRendered
    /\ formState' = InitialFormState
    /\ UNCHANGED <<formData, sessionId, pending, clock, call, appVars>>

resetForm ==
    /\ ResetButtonRendered
    /\ formData' = InitialFormData
    /\ formState' = InitialFormState
    /\ UNCHANGED <<sessionId, pending, clock, call, appVars>>

Next ==
    \/ \E name \in FieldNames : \E value \in InputValues(name) :
          handleInputChange(name, value)
    \/ \E name \in TextFields : handleBlur(name)
    \/ handleSubmit
    \/ \E r \in pending : \E status \in Statuses : FetchResolved(r, status)
    \/ \E r \in pending : \E message \in FetchErrorMessages : FetchRejected(r, message)
    \/ \E r \in pending : \E body \in ResultBodies : JsonResolved(r, body)
    \/ \E r \in pending : \E message \in JsonErrorMessages : JsonRejected(r, message)
    \/ resetForm

Spec == Init /\ [][Next]_vars

\* The transport settles a request: either promise of lines 158 and 166
\* resolves or rejects.
Resolve ==
    \E r \in pending :
        \/ \E status \in Statuses : FetchResolved(r, status)
        \/ \E message \in FetchErrorMessages : FetchRejected(r, message)
        \/ \E body \in ResultBodies : JsonResolved(r, body)
        \/ \E message \in JsonErrorMessages : JsonRejected(r, message)

\* The transport eventually settles every promise it has handed out.
SpecLive == Spec /\ WF_vars(Resolve)

-----------------------------------------------------------------------------
(* App: the demo view switch and the statistics ticker *)

\* Largest eventsProcessed a behaviour counts up to.
MaxEvents == 2

\* Most requests that outlive their ContactForm at one time.
MaxOrphaned == 1

\* Math.floor(Math.random() * 3)
RandomIncrements == {0, 1, 2}

\* Math.floor(Math.random() * 100): the two ends of 0..99
ResponseOffsets == {0, 99}

\* sessionId of no mounted ContactForm
NoSession == <<>>

\* An updater that takes the increment as the new count
TickStatsOverwrites(prev, increment, offset, healthy) ==
    [eventsProcessed |-> increment,
     avgResponseTime |-> 150 + offset,
     systemHealth |-> IF healthy THEN "healthy" ELSE "degraded"]

\* An updater that averages the new sample with the previous one
TickStatsSmoothed(prev, increment, offset, healthy) ==
    [eventsProcessed |-> prev.eventsProcessed + increment,
     avgResponseTime |-> (prev.avgResponseTime + 150 + offset) \div 2,
     systemHealth |-> IF healthy THEN "healthy" ELSE "degraded"]

\* prev => ({eventsProcessed: prev.eventsProcessed + ..., avgResponseTime: 150 + ...,
\*           systemHealth: Math.random() > 0.1 ? 'healthy' : 'degraded'})
TickStats(prev, increment, offset, healthy) ==
    [eventsProcessed |-> prev.eventsProcessed + increment,
     avgResponseTime |-> 150 + offset,
     systemHealth |-> IF healthy THEN "healthy" ELSE "degraded"]

\* A tick whose re-render of App recreates the ContactForm under it
TickRemountsForm(increment, offset, healthy) ==
    /\ interval # {}
    /\ stats.eventsProcessed + increment <= MaxEvents
    /\ stats' = IF appMounted THEN TickStats(stats, increment, offset, healthy)
                ELSE stats
    /\ formData' = InitialFormData
    /\ formState' = InitialFormState
    /\ UNCHANGED <<sessionId, pending, clock, call,
                   appMounted, showDemo, interval, orphaned>>

\* The callback of setInterval(..., 3000); setStats of an unmounted App is
\* dropped.
Tick(increment, offset, healthy) ==
    /\ interval # {}
    /\ stats.eventsProcessed + increment <= MaxEvents
    /\ stats' = IF appMounted THEN TickStats(stats, increment, offset, healthy)
                ELSE stats
    /\ UNCHANGED <<formData, formState, sessionId, pending, clock, call,
                   appMounted, showDemo, interval, orphaned>>

\* setShowDemo(true): <ContactForm /> mounts and runs its useState initialisers
OpenDemo ==
    /\ appMounted
    /\ ~showDemo
    /\ showDemo' = TRUE
    /\ formData' = InitialFormData
    /\ formState' = InitialFormState
    /\ \E t \in DateNow : \E r \in RandomSuffixes :
          /\ sessionId' = GenerateSessionId(t, r)
          /\ clock' = t
    /\ pending' = {}
    /\ UNCHANGED <<call, appMounted, stats, interval, orphaned>>

\* A demo view that hands the request in flight on to the next ContactForm
CloseDemoKeepsPending ==
    /\ appMounted
    /\ showDemo
    /\ showDemo' = FALSE
    /\ formData' = InitialFormData
    /\ formState' = InitialFormState
    /\ sessionId' = NoSession
    /\ UNCHANGED <<pending, orphaned, clock, call, appMounted, stats, interval>>

\* setShowDemo(false): <ContactForm /> unmounts, its state is discarded and
\* its request, if one is in flight, goes on without it
CloseDemo ==
    /\ appMounted
    /\ showDemo
    /\ Cardinality(orphaned \cup pending) <= MaxOrphaned
    /\ showDemo' = FALSE
    /\ formData' = InitialFormData
    /\ formState' = InitialFormState
    /\ sessionId' = NoSession
    /\ orphaned' = orphaned \cup pending
    /\ pending' = {}
    /\ UNCHANGED <<clock, call, appMounted, stats, interval>>

\* The promise chain of a request whose ContactForm is unmounted runs to its
\* end: its setFormState goes to the discarded instance.
OrphanSettled(r) ==
    /\ r \in orphaned
    /\ orphaned' = orphaned \ {r}
    /\ UNCHANGED <<formData, formState, sessionId, pending, clock, call,
                   appMounted, showDemo, stats, interval>>

\* An App whose effect returns no cleanup: the timer outlives it
UnmountAppKeepsInterval ==
    /\ appMounted
    /\ Cardinality(orphaned \cup pending) <= MaxOrphaned
    /\ appMounted' = FALSE
    /\ showDemo' = FALSE
    /\ stats' = InitialStats
    /\ formData' = InitialFormData
    /\ formState' = InitialFormState
    /\ sessionId' = NoSession
    /\ orphaned' = orphaned \cup pending
    /\ pending' = {}
    /\ UNCHANGED <<clock, call, interval>>

\* App unmounts: the effect's cleanup runs, return () => clearInterval(interval)
UnmountApp ==
    /\ appMounted
    /\ Cardinality(orphaned \cup pending) <= MaxOrphaned
    /\ appMounted' = FALSE
    /\ interval' = {}
    /\ showDemo' = FALSE
    /\ stats' = InitialStats
    /\ formData' = InitialFormData
    /\ formState' = InitialFormState
    /\ sessionId' = NoSession
    /\ orphaned' = orphaned \cup pending
    /\ pending' = {}
    /\ UNCHANGED <<clock, call>>

\* App mounts: useState initialisers, then useEffect(() => {setInterval...}, [])
MountApp ==
    /\ ~appMounted
    /\ appMounted' = TRUE
    /\ showDemo' = FALSE
    /\ stats' = InitialStats
    /\ interval' = interval \cup {Cardinality(interval) + 1}
    /\ UNCHANGED <<formData, formState, sessionId, pending, clock, call, orphaned>>

\* App mounted on the overview page, no ContactForm yet.
InitApp ==
    /\ clock = 0
    /\ appMounted = TRUE
    /\ showDemo = FALSE
    /\ stats = InitialStats
    /\ interval = {1}
    /\ orphaned = {}
    /\ formData = InitialFormData
    /\ formState = InitialFormState
    /\ sessionId = NoSession
    /\ pending = {}
    /\ call = NoCall

\* What the user enters in the demo: the valid sample of each required field.
DemoInputValues(name) ==
    CASE name = "name" -> {SampleName}
      [] name = "email" -> {SampleEmail}
      [] name = "company" -> {SampleCompany}
      [] name = "message" -> {SampleMessage}
      [] name = "preferred_contact_method" -> {SampleContactMethod}
      [] name = "consent_data_processing" -> {TRUE}
      [] OTHER -> {}

\* The field the user leaves without filling it in first.
DemoBlurred == {"email"}

DemoStatuses == {200, 422}
DemoBodies == {AckBody, RejectBody}

NextApp ==
    \/ OpenDemo
    \/ CloseDemo
    \/ \E increment \in RandomIncrements : \E offset \in ResponseOffsets :
          \E healthy \in BOOLEAN : Tick(increment, offset, healthy)
    \/ \E r \in orphaned : OrphanSettled(r)
    \/ UnmountApp
    \/ MountApp
    \/ \E name \in FieldNames : \E value \in DemoInputValues(name) :
          handleInputChange(name, value)
    \/ \E name \in DemoBlurred : handleBlur(name)
    \/ handleSubmit
    \/ \E r \in pending : \E status \in DemoStatuses : FetchResolved(r, status)
    \/ \E r \in pending : \E message \in FetchErrorMessages : FetchRejected(r, message)
    \/ \E r \in pending : \E body \in DemoBodies : JsonResolved(r, body)
    \/ \E r \in pending : \E message \in JsonErrorMessages : JsonRejected(r, message)
    \/ resetForm

SpecApp == InitApp /\ [][NextApp]_vars

-----------------------------------------------------------------------------
(* validateField as a function of its two arguments *)

InitValidate ==
    /\ clock = 0
    /\ \E r \in RandomSuffixes : sessionId = GenerateSessionId(0, r)
    /\ formData = InitialFormData
    /\ formState = InitialFormState
    /\ pending = {}
    /\ DemoOpen
    /\ \E name \in ValidatedNames : \E value \in CallValues(name) :
          call = [name |-> name, value |-> value, returned |-> FALSE,
                  errors |-> EmptyObject]

\* const errors = {}; switch (name) {...}; return errors
CallValidateField ==
    /\ ~call.returned
    /\ call' = [call EXCEPT !.returned = TRUE,
                            !.errors = validateField(call.name, call.value)]
    /\ UNCHANGED <<formData, formState, sessionId, pending, clock, appVars>>

NextValidate == CallValidateField

SpecValidate == InitValidate /\ [][NextValidate]_vars

-----------------------------------------------------------------------------
(* SubmissionState, read off formState *)

Submitting == formState.isSubmitting
Submitted == formState.isSubmitted
Failed == ~formState.isSubmitting /\ ~formState.isSubmitted /\ formState.error # Null
Idle == ~formState.isSubmitting /\ ~formState.isSubmitted /\ formState.error = Null

-----------------------------------------------------------------------------
(* Properties *)

\* C1: while the machine is Submitting no submit attempt is accepted (the
\* handler cannot run, so no transport call is added and no state changes),
\* and at most one submission request is in flight in every reachable state.
C1_NoReentrantSubmit ==
    /\ Cardinality(pending) <= 1
    /\ formState.isSubmitting => ~ENABLED handleSubmit

\* A request is in flight, the machine is Submitting and submit is refused.
C1_Witness ==
    /\ formState.isSubmitting
    /\ Cardinality(pending) = 1
    /\ ~ENABLED handleSubmit

\* C2: a submit attempt on a record that fails validateForm adds no transport
\* call, ends in Idle (not Submitting, not Submitted, no failure message) and
\* replaces the error set by exactly validateForm(record).
C2_InvalidSubmitStaysIdle ==
    [][(/\ formState' # formState
        /\ formData' = formData
        /\ formState'.submissionStartTime # NoTime
        /\ handleSubmit
        /\ DOMAIN validateForm(formData) # {}) =>
          /\ pending' = pending
          /\ ~formState'.isSubmitting
          /\ ~formState'.isSubmitted
          /\ formState'.error = Null
          /\ formState'.validationErrors = validateForm(formData)]_vars

\* A rejected attempt has happened: the start time is recorded, nothing is in
\* flight and the error set is the non-empty validateForm of the record, with
\* the email error of a malformed address in it.
C2_Witness ==
    /\ formState.submissionStartTime # NoTime
    /\ ~formState.isSubmitting
    /\ pending = {}
    /\ formData.email = SampleBadEmail
    /\ formState.validationErrors = validateForm(formData)
    /\ "email" \in DOMAIN formState.validationErrors

\* C3: whenever the machine is Submitting, the record on the form and the
\* record of every request in flight pass validateForm.
C3_SubmittingOnlyWhenValid ==
    formState.isSubmitting =>
        /\ DOMAIN validateForm(formData) = {}
        /\ \A r \in pending : DOMAIN validateForm(r.payload.form_data) = {}

\* Submitting with a record that passes validateForm, the record that the
\* request in flight carries.
C3_Witness ==
    /\ formState.isSubmitting
    /\ formData.consent_data_processing
    /\ DOMAIN validateForm(formData) = {}
    /\ \E r \in pending : r.payload.form_data = formData

\* C4: the machine becomes Submitted only in a step that consumes the 2xx
\* response of a request in flight that carries this form's session identity.
C4_SubmittedOnlyByAck ==
    [][(~formState.isSubmitted /\ formState'.isSubmitted) =>
          \E r \in pending :
              /\ r.stage = "json"
              /\ r.status \in 200..299
              /\ r.payload.metadata.session_id = sessionId
              /\ pending' = pending \ {r}
              /\ formState.isSubmitting]_vars

\* Submitted has been reached.
C4_Witness ==
    /\ formState.isSubmitted
    /\ ~formState.isSubmitting
    /\ pending = {}

\* C5: a failure message appears only in a step that resolves a request in
\* flight without acknowledging it (every other step keeps or clears the
\* message), and a failure message is never set together with Submitted.
C5_FailedOnlyAfterFailedAttempt ==
    /\ [](formState.error # Null => ~formState.isSubmitted)
    /\ [][(formState'.error # Null /\ formState'.error # formState.error) =>
             /\ formState.isSubmitting
             /\ ~formState'.isSubmitting
             /\ ~formState'.isSubmitted
             /\ \E r \in pending : pending' = pending \ {r}]_vars

\* Failed, with the user editing the form afterwards.
C5_Witness ==
    /\ Failed
    /\ DOMAIN validateForm(formData) # {}

\* A step in which response.json() of a 2xx response resolves to a body that
\* carries event_id "ev-1" and correlation_id "corr-1".
AckStep ==
    \E r \in pending :
        /\ r.stage = "json"
        /\ r.status \in 200..299
        /\ JsonResolved(r, AckBody)

\* C6 as stated: the acknowledgment of a 2xx response with both ids leads from
\* Submitting to Submitted with exactly those ids, an empty validation error
\* set and no failure message.
C6_AckClearsAllErrors ==
    [][AckStep =>
          /\ formState.isSubmitting
          /\ formState'.isSubmitted
          /\ ~formState'.isSubmitting
          /\ formState'.eventId = "ev-1"
          /\ formState'.correlationId = "corr-1"
          /\ formState'.error = Null
          /\ DOMAIN formState'.validationErrors = {}]_vars

\* C6, amended: the acknowledgment of a 2xx response with both ids leads from
\* Submitting to Submitted with exactly those ids and no failure message; it
\* leaves the validation error set as it was, which holds no error of a field
\* that validateForm checks but may hold the phone error of an earlier blur.
C6_AckKeepsPhoneError ==
    [][AckStep =>
          /\ formState.isSubmitting
          /\ formState'.isSubmitted
          /\ ~formState'.isSubmitting
          /\ formState'.eventId = "ev-1"
          /\ formState'.correlationId = "corr-1"
          /\ formState'.error = Null
          /\ formState'.validationErrors = formState.validationErrors
          /\ DOMAIN formState'.validationErrors \subseteq {"phone"}]_vars

\* Submitted with both ids while the phone error of an earlier blur is kept.
C6_Witness ==
    /\ formState.isSubmitted
    /\ formState.eventId = "ev-1"
    /\ formState.correlationId = "corr-1"
    /\ formState.error = Null
    /\ DOMAIN formState.validationErrors = {"phone"}

\* The error string a parsed body carries, if it carries one.
ErrorStringOf(body) ==
    IF body.kind = "object" /\ "error" \in DOMAIN body.obj
    THEN body.obj.error
    ELSE Undefined

\* C7 as stated: every resolution of a non-2xx response leads from Submitting
\* to Failed and not to Submitted, and a body that carries an error string
\* makes that string the failure message.
C7_RejectionVerbatim ==
    [][\A r \in pending :
          (r.stage = "json" /\ r.status \notin 200..299) =>
             /\ \A body \in ResultBodies :
                   JsonResolved(r, body) =>
                      /\ formState.isSubmitting
                      /\ Failed'
                      /\ ErrorStringOf(body) # Undefined =>
                            formState'.error = ErrorStringOf(body)
             /\ \A message \in JsonErrorMessages :
                   JsonRejected(r, message) => (formState.isSubmitting /\ Failed')]_vars

\* C7, amended: every resolution of a non-2xx response leads from Submitting
\* to Failed and not to Submitted, and a body that carries a non-empty error
\* string makes that string the failure message (an empty error string gives
\* the fallback message).
C7_RejectionVerbatimNonEmpty ==
    [][\A r \in pending :
          (r.stage = "json" /\ r.status \notin 200..299) =>
             /\ \A body \in ResultBodies :
                   JsonResolved(r, body) =>
                      /\ formState.isSubmitting
                      /\ Failed'
                      /\ ErrorStringOf(body) \notin {Undefined, ""} =>
                            formState'.error = ErrorStringOf(body)
                      /\ ErrorStringOf(body) = "" =>
                            formState'.error = "Failed to submit form"
             /\ \A message \in JsonErrorMessages :
                   JsonRejected(r, message) => (formState.isSubmitting /\ Failed')]_vars

\* Failed with the backend's own error string.
C7_Witness ==
    /\ Failed
    /\ formState.error = "duplicate submission"
    /\ pending = {}

\* C8: a transport failure (fetch() rejects, or response.json() rejects) leads
\* from Submitting to Failed with a message that is not the message of the
\* underlying error.
C8_TransportFailureGeneric ==
    [][\A r \in pending :
          \A message \in FetchErrorMessages \cup JsonErrorMessages :
             (FetchRejected(r, message) \/ JsonRejected(r, message)) =>
                /\ formState.isSubmitting
                /\ Failed'
                /\ formState'.error # message]_vars

\* C9: the reset action, taken from Submitted, yields Idle with every field
\* of the record at its initial empty value, an empty error set, no failure
\* message, and no start timestamp, event id or correlation id.
C9_ResetClearsEverything ==
    [][resetForm =>
          /\ formState.isSubmitted
          /\ Idle'
          /\ \A f \in TextFields \cup {"preferred_contact_method"} :
                formData'[f] = <<>>
          /\ \A f \in CheckboxFields : formData'[f] = FALSE
          /\ DOMAIN formState'.validationErrors = {}
          /\ formState'.error = Null
          /\ formState'.submissionStartTime = NoTime
          /\ formState'.eventId = Null
          /\ formState'.correlationId = Null]_vars

\* The state a reset leaves: the clock has moved since the mount, which only
\* a submit attempt does, and no start timestamp is kept, which only a reset
\* after that attempt brings about.
C9_Witness ==
    /\ clock > 0
    /\ formState = InitialFormState
    /\ formData = InitialFormData
    /\ pending = {}

\* C10: the reset action leaves a session identity that differs from the one
\* before it.
C10_ResetRegeneratesSession ==
    [][resetForm => sessionId' # sessionId]_vars

\* C11: no step changes the session identity (the model has no remount, so
\* the whole behaviour lies between one mount and the resets that follow),
\* and every request in flight carries that identity as its session_id.
C11_SessionIdentityStable ==
    /\ [](\A r \in pending : r.payload.metadata.session_id = sessionId)
    /\ [][sessionId' = sessionId]_vars

\* A request of a second accepted attempt is in flight (the clock has moved
\* and a failure or reset lies behind), carrying the session identity.
C11_Witness ==
    /\ \E r \in pending : r.payload.metadata.session_id = sessionId
    /\ formState.submissionStartTime = Stamp(1)
    /\ formState.isSubmitting

\* C12 as stated: while the machine is Submitting every field edit is still
\* accepted.
C12_EditsAcceptedWhileSubmitting ==
    formState.isSubmitting =>
        \A name \in FieldNames : \A value \in InputValues(name) :
            ENABLED handleInputChange(name, value)

\* C12, amended: while the machine is Submitting every control is disabled,
\* so no field edit is accepted and the record stays as submitted; the
\* payload of the request in flight never changes and equals that record.
C12_NoEditsWhileSubmitting ==
    /\ [](formState.isSubmitting =>
             /\ \A name \in FieldNames : \A value \in InputValues(name) :
                   ~ENABLED handleInputChange(name, value)
             /\ \A r \in pending : r.payload.form_data = formData)
    /\ [][formState.isSubmitting =>
             /\ formData' = formData
             /\ \A r \in pending : \A q \in pending' :
                   q.id = r.id => q.payload = r.payload]_vars

\* Submitting with the response already received and the body still awaited:
\* the controls have been disabled across a transport step.
C12_Witness ==
    /\ formState.isSubmitting
    /\ \E r \in pending : r.stage = "json" /\ r.payload.form_data = formData
    /\ \A name \in FieldNames : \A value \in InputValues(name) :
          ~ENABLED handleInputChange(name, value)

\* A step that issues a transport call: a request awaiting fetch() appears.
IssuesCall ==
    \E q \in pending' : q.stage = "fetch" /\ q \notin pending

\* C13: every transport call is issued by one accepted submit attempt (a
\* handleSubmit step on a record that passes validateForm, adding exactly
\* one request), every accepted attempt issues one, and Submitting is left
\* only by a step that consumes the resolution of the request in flight; so
\* calls and accepted attempts stay equal in number, with no retry and no
\* timeout.
C13_OneCallPerAcceptedAttempt ==
    /\ [][IssuesCall =>
             /\ handleSubmit
             /\ DOMAIN validateForm(formData) = {}
             /\ Cardinality(pending') = Cardinality(pending) + 1
             /\ pending \subseteq pending']_vars
    /\ [][(/\ formState' # formState
           /\ formData' = formData
           /\ formState'.isSubmitting
           /\ handleSubmit) => IssuesCall]_vars
    /\ [][(formState.isSubmitting /\ ~formState'.isSubmitting) =>
             \E r \in pending :
                 /\ pending' = pending \ {r}
                 /\ Cardinality(pending') = Cardinality(pending) - 1]_vars

\* A failed attempt lies behind and nothing was sent again: Failed with the
\* record still valid and no request in flight.
C13_Witness ==
    /\ Failed
    /\ pending = {}
    /\ DOMAIN validateForm(formData) = {}
    /\ formState.submissionStartTime # NoTime

\* A submit attempt that is accepted.
AcceptedSubmit == handleSubmit /\ formState'.isSubmitting

\* C15: in every reachable Idle or Failed state whose record passes
\* validateForm a submit attempt is accepted, and every submit attempt on
\* such a record enters Submitting with the failure message cleared and adds
\* exactly one request.
C15_FailuresRecoverable ==
    /\ []((/\ ~formState.isSubmitting
           /\ ~formState.isSubmitted
           /\ DOMAIN validateForm(formData) = {}) => ENABLED AcceptedSubmit)
    /\ [][(/\ formState' # formState
           /\ formData' = formData
           /\ handleSubmit
           /\ DOMAIN validateForm(formData) = {}) =>
             /\ formState'.isSubmitting
             /\ formState'.error = Null
             /\ \E q \in pending' :
                   /\ q \notin pending
                   /\ q.stage = "fetch"
                   /\ pending' = pending \cup {q}
                   /\ Cardinality(pending') = Cardinality(pending) + 1]_vars

\* Failed after a transport failure, with a record that passes validateForm
\* and a submit attempt that would be accepted.
C15_Witness ==
    /\ Failed
    /\ formState.error \in FetchErrorMessages \cup JsonErrorMessages
    /\ DOMAIN validateForm(formData) = {}
    /\ ENABLED AcceptedSubmit

\* C20: the request issued by an accepted attempt carries the record as it
\* stands at that attempt, the session identity, form_version "1.0.0" and a
\* non-negative submission_duration_ms, the difference of the two clock
\* readings taken before fetch() is called; no later step changes the
\* payload of a request in flight.
C20_PayloadAsSubmitted ==
    /\ [][IssuesCall =>
             \A q \in pending' \ pending :
                 /\ q.payload.form_data = formData
                 /\ q.payload.metadata.session_id = sessionId
                 /\ q.payload.metadata.form_version = "1.0.0"
                 /\ q.payload.metadata.submission_duration_ms >= 0
                 /\ formState'.submissionStartTime =
                       <<clock' - q.payload.metadata.submission_duration_ms>>]_vars
    /\ [][\A r \in pending : \A q \in pending' :
             q.id = r.id => q.payload = r.payload]_vars

\* A response has arrived for a request whose payload was built one clock
\* reading after the submit click.
C20_Witness ==
    \E r \in pending :
        /\ r.stage = "json"
        /\ r.payload.metadata.submission_duration_ms = 1
        /\ r.payload.form_data = formData

C16_LengthBounds ==
    (call.returned /\ call.name \in {"name", "company", "message"}) =>
        LET len == Len(Trim(call.value))
            min == IF call.name = "message" THEN 10 ELSE 2
            max == IF call.name = "message" THEN 2000 ELSE 100
        IN  IF len < min \/ len > max
            THEN DOMAIN call.errors = {call.name}
            ELSE DOMAIN call.errors = {}

\* validateField has returned no error for a message of exactly 2000
\* characters inside white space.
C16_Witness ==
    /\ call.returned
    /\ call.name = "message"
    /\ Len(call.value) = 2003
    /\ Len(Trim(call.value)) = 2000
    /\ DOMAIN call.errors = {}

\* The phone value without spaces, hyphens, parentheses and one leading +.
PhoneDigits(value) ==
    LET d == StripPhone(value)
    IN  IF Len(d) > 0 /\ d[1] = "+" THEN Tail(d) ELSE d

\* C18 as stated: validateField for phone returns no error exactly when the
\* value is empty or reduces to an optional + followed by 1 to 16 digits.
C18_PhoneAnyDigits ==
    (call.returned /\ call.name = "phone") =>
        LET d == PhoneDigits(call.value)
        IN  (DOMAIN call.errors = {}) <=>
                \/ call.value = EmptyString
                \/ /\ Len(d) \in 1..16
                   /\ \A i \in 1..Len(d) : d[i] \in Digits

\* C18, amended: validateField for phone returns no error exactly when the
\* value is empty or reduces to an optional + followed by 1 to 16 digits of
\* which the first is not 0; every other value yields a phone error.
C18_PhoneNoLeadingZero ==
    (call.returned /\ call.name = "phone") =>
        LET d == PhoneDigits(call.value)
            accepted == \/ call.value = EmptyString
                        \/ /\ Len(d) \in 1..16
                           /\ \A i \in 1..Len(d) : d[i] \in Digits
                           /\ d[1] # "0"
        IN  IF accepted THEN DOMAIN call.errors = {}
            ELSE DOMAIN call.errors = {"phone"}

\* validateField has refused a phone value made of two digits, the first 0.
C18_Witness ==
    /\ call.returned
    /\ call.name = "phone"
    /\ call.value = SampleBadPhone
    /\ DOMAIN call.errors = {"phone"}

RequiredFields == {"name", "email", "company", "message", "preferred_contact_method"}

\* C17: validateForm(record) is empty exactly when name, email, company,
\* message and preferred_contact_method each pass validateField and
\* consent_data_processing is true; when consent_data_processing is false the
\* result has a consent error whatever else the record holds; flipping
\* consent_marketing never changes the result.
C17_FormValidExactly ==
    LET errors == validateForm(formData)
    IN  /\ (DOMAIN errors = {}) <=>
               /\ \A name \in RequiredFields :
                      DOMAIN validateField(name, formData[name]) = {}
               /\ formData.consent_data_processing
        /\ ~formData.consent_data_processing =>
               "consent_data_processing" \in DOMAIN errors
        /\ validateForm([formData EXCEPT !.consent_marketing = ~@]) = errors

\* A submit was refused for the missing consent alone: every required field
\* passes, the phone is invalid and consent_marketing is ticked.
C17_Witness ==
    /\ ~formData.consent_data_processing
    /\ formData.consent_marketing
    /\ formData.phone = SampleBadPhone
    /\ \A name \in RequiredFields : DOMAIN validateField(name, formData[name]) = {}
    /\ formState.submissionStartTime # NoTime
    /\ DOMAIN validateForm(formData) = {"consent_data_processing"}

\* C21 as stated: while Failed, every step that does not enter Submitting
\* (an edit, a blur, a submit attempt rejected by validation) leaves the
\* failure message unchanged.
C21_MessageKeptUntilSubmitting ==
    [][(Failed /\ ~formState'.isSubmitting) =>
          formState'.error = formState.error]_vars

\* C21, amended: while Failed, edits and blurs leave the failure message
\* unchanged; the message changes only in a submit attempt, and every submit
\* attempt clears it, whether the attempt enters Submitting or is rejected by
\* validation.
C21_MessageKeptUntilSubmit ==
    /\ [][(Failed /\ formState'.error # formState.error) =>
             handleSubmit /\ formState'.error = Null]_vars
    /\ [][(Failed /\ formState'.error = formState.error) => ~handleSubmit]_vars

\* Failed with the message of a backend rejection still shown after an edit
\* made the record invalid and a blur recorded an error, and a submit attempt
\* that validation rejects would clear the message.
C21_Witness ==
    /\ Failed
    /\ formState.error = "duplicate submission"
    /\ DOMAIN validateForm(formData) # {}
    /\ "email" \in DOMAIN formState.validationErrors
    /\ ENABLED (handleSubmit /\ ~formState'.isSubmitting /\ formState'.error = Null)

\* The submission state and its metadata are the same before and after.
SubmissionStateUnchanged ==
    /\ formState'.isSubmitting = formState.isSubmitting
    /\ formState'.isSubmitted = formState.isSubmitted
    /\ formState'.error = formState.error
    /\ formState'.submissionStartTime = formState.submissionStartTime
    /\ formState'.eventId = formState.eventId
    /\ formState'.correlationId = formState.correlationId

\* Every field but name keeps its error entry.
OtherErrorsUnchanged(name) ==
    \A other \in FieldNames \ {name} :
        /\ other \in DOMAIN formState'.validationErrors <=>
               other \in DOMAIN formState.validationErrors
        /\ other \in DOMAIN formState.validationErrors =>
               formState'.validationErrors[other] = formState.validationErrors[other]

\* C22: an edit of field f sets f to the new value and leaves no error for f
\* in the error set, also when the new value is invalid; every other field's
\* value, every other field's error and the submission state are unchanged.
C22_EditClearsOwnErrorOnly ==
    [][\A name \in FieldNames : \A value \in InputValues(name) :
          (/\ pending' = pending
           /\ clock' = clock
           /\ ~formState.isSubmitting
           /\ handleInputChange(name, value)) =>
              /\ formData'[name] = value
              /\ name \notin DOMAIN formState'.validationErrors
              /\ \A other \in FieldNames \ {name} : formData'[other] = formData[other]
              /\ OtherErrorsUnchanged(name)
              /\ SubmissionStateUnchanged]_vars

\* After a rejected submit published the errors of the empty record, the
\* email was edited to an invalid value: it has no error, the name still has.
C22_Witness ==
    /\ formState.submissionStartTime # NoTime
    /\ Idle
    /\ formData.email = SampleBadEmail
    /\ "email" \notin DOMAIN formState.validationErrors
    /\ formData.name = EmptyString
    /\ "name" \in DOMAIN formState.validationErrors

\* C23: after a blur of field f the entry for f is exactly
\* validateField(f, value of f), present when the value is invalid and absent
\* when it is valid; the entries of the other fields, all field values and the
\* submission state are unchanged.
C23_BlurRecomputesOwnError ==
    [][\A name \in TextFields :
          (/\ formData' = formData
           /\ pending' = pending
           /\ clock' = clock
           /\ ~formState.isSubmitting
           /\ handleBlur(name)) =>
              LET fieldErrors == validateField(name, formData[name])
              IN  /\ name \in DOMAIN formState'.validationErrors <=>
                         DOMAIN fieldErrors # {}
                  /\ DOMAIN fieldErrors # {} =>
                         formState'.validationErrors[name] = fieldErrors[name]
                  /\ OtherErrorsUnchanged(name)
                  /\ SubmissionStateUnchanged]_vars

\* Before any submit attempt two blurs have each recorded their own error.
C23_Witness ==
    /\ formState.submissionStartTime = NoTime
    /\ formData.phone = SampleBadPhone
    /\ formData.email = SampleBadEmail
    /\ formData.name = SampleName
    /\ DOMAIN formState.validationErrors = {"phone", "email"}

C25_TouchedFieldNeverStale ==
    [][(/\ "phone" \in DOMAIN formState.validationErrors
        /\ ~\E value \in InputValues("phone") : handleInputChange("phone", value)) =>
          ("phone" \in DOMAIN formState'.validationErrors <=>
              DOMAIN validateField("phone", formData'.phone) # {})]_vars

\* C26: the step from Submitting to Failed changes only isSubmitting and the
\* failure message: every field value, the validation error set, the session
\* identity and the rest of the submission metadata are unchanged.
C26_FailureIsAttemptScoped ==
    [][(formState.isSubmitting /\ ~formState'.isSubmitting /\ ~formState'.isSubmitted) =>
          /\ formState'.error # Null
          /\ formData' = formData
          /\ formState'.validationErrors = formState.validationErrors
          /\ sessionId' = sessionId
          /\ formState'.submissionStartTime = formState.submissionStartTime
          /\ formState'.eventId = formState.eventId
          /\ formState'.correlationId = formState.correlationId]_vars

\* Failed after the fallback rejection, with the record that was submitted and
\* the phone error recorded before the attempt both still there.
C26_Witness ==
    /\ Failed
    /\ formState.error = FallbackMessage
    /\ formData.phone = SampleBadPhone
    /\ DOMAIN formState.validationErrors = {"phone"}
    /\ DOMAIN validateForm(formData) = {}

\* A value that is neither null nor undefined.
IsSet(v) == v # Null /\ v # Undefined

\* C27: in every reachable state the flags denote one SubmissionState: never
\* Submitting together with Submitted, never a failure message together with
\* Submitting or with Submitted, and eventId or correlationId set only while
\* Submitted.
C27_OneSubmissionState ==
    /\ ~(formState.isSubmitting /\ formState.isSubmitted)
    /\ formState.isSubmitting => formState.error = Null
    /\ formState.isSubmitted => formState.error = Null
    /\ (IsSet(formState.eventId) \/ IsSet(formState.correlationId)) =>
           formState.isSubmitted
    /\ Cardinality({state \in {"Idle", "Submitting", "Submitted", "Failed"} :
                       \/ state = "Idle" /\ Idle
                       \/ state = "Submitting" /\ Submitting
                       \/ state = "Submitted" /\ Submitted
                       \/ state = "Failed" /\ Failed}) = 1

\* Submitting with the phone error of an earlier blur still in the error
\* set: no failure message, no ids, one request in flight.
C27_Witness ==
    /\ Submitting
    /\ ~Submitted
    /\ formState.error = Null
    /\ ~IsSet(formState.eventId)
    /\ "phone" \in DOMAIN formState.validationErrors
    /\ pending # {}

\* C28: while Submitted no request is in flight and the form is not on screen:
\* every step from a Submitted state is the reset action or changes neither
\* the submission state, the ids nor the FormRecord.
C28_SubmittedLeftOnlyByReset ==
    /\ [](formState.isSubmitted =>
             /\ pending = {}
             /\ ~ENABLED handleSubmit
             /\ \A name \in TextFields : ~ENABLED handleBlur(name)
             /\ \A name \in FieldNames : \A value \in InputValues(name) :
                    ~ENABLED handleInputChange(name, value))
    /\ [][formState.isSubmitted =>
             \/ formState' = formState /\ formData' = formData
             \/ resetForm]_vars

\* Submitted with the submitted record still held and the reset button there.
C28_Witness ==
    /\ Submitted
    /\ formData.name = SampleName
    /\ formData.consent_data_processing
    /\ ENABLED resetForm
    /\ ~ENABLED handleSubmit

\* C29: in every reachable Submitted state both eventId and correlationId are
\* set.
C29_SubmittedHasBothIds ==
    formState.isSubmitted =>
        IsSet(formState.eventId) /\ IsSet(formState.correlationId)

\* The phone is not empty and fails the phone rule; everything validateForm
\* looks at is in order.
InvalidPhoneOnly ==
    /\ formData.phone # EmptyString
    /\ DOMAIN validateField("phone", formData.phone) # {}
    /\ \A name \in RequiredFields : DOMAIN validateField(name, formData[name]) = {}
    /\ formData.consent_data_processing

\* C30: on a record whose phone is non-empty and invalid while the other
\* fields are valid and consent_data_processing is true, a submit attempt is
\* possible whenever the machine is Idle or Failed, and every submit attempt
\* enters Submitting and issues one request whose payload carries that phone.
C30_InvalidPhoneDoesNotBlock ==
    /\ []((InvalidPhoneOnly /\ ~formState.isSubmitting /\ ~formState.isSubmitted) =>
             ENABLED AcceptedSubmit)
    /\ [][(/\ formState' # formState
           /\ formData' = formData
           /\ InvalidPhoneOnly
           /\ handleSubmit) =>
             /\ formState'.isSubmitting
             /\ \E q \in pending' \ pending :
                   /\ q.stage = "fetch"
                   /\ q.payload.form_data.phone = formData.phone]_vars

\* A request carrying the invalid phone is in flight while the phone error
\* from an earlier blur is still in the error set.
C30_Witness ==
    /\ Submitting
    /\ formData.phone = SampleBadPhone
    /\ "phone" \in DOMAIN formState.validationErrors
    /\ \E r \in pending : r.payload.form_data.phone = SampleBadPhone

\* C31: the step that opens the demo view mounts a ContactForm that is Idle
\* with the empty record, the empty error set, nothing in flight and a session
\* identity generated at that moment; the step that leaves the demo view takes
\* the request in flight away from the form; every request in flight belongs
\* to the mounted form; the end of an earlier mount's request changes nothing
\* of the form.
C31_EachMountStartsFresh ==
    /\ [][(~showDemo /\ showDemo') =>
             /\ formData' = InitialFormData
             /\ formState' = InitialFormState
             /\ pending' = {}
             /\ sessionId' \in {GenerateSessionId(clock', r) : r \in RandomSuffixes}]_vars
    /\ [][(showDemo /\ ~showDemo') => pending' = {}]_vars
    /\ [](\A r \in pending : showDemo /\ r.payload.metadata.session_id = sessionId)
    /\ [][(\E r \in orphaned : orphaned' = orphaned \ {r}) =>
             UNCHANGED <<formData, formState, sessionId, pending>>]_vars

\* A second ContactForm is mounted and filled in while the request of an
\* earlier one, sent under another session identity, is still in flight.
C31_Witness ==
    /\ showDemo
    /\ formData.name = SampleName
    /\ Idle
    /\ pending = {}
    /\ \E r \in orphaned : r.payload.metadata.session_id # sessionId

\* Some tick happens in this step.
TickStep ==
    \E increment \in RandomIncrements : \E offset \in ResponseOffsets :
        \E healthy \in BOOLEAN : Tick(increment, offset, healthy)

\* C32: while App stays mounted eventsProcessed never decreases, and every
\* step that changes the snapshot is a tick that adds 0, 1 or 2 to it.
C32_EventsProcessedMonotonic ==
    [][(appMounted /\ appMounted') =>
          /\ stats'.eventsProcessed >= stats.eventsProcessed
          /\ stats'.eventsProcessed - stats.eventsProcessed \in 0..2
          /\ stats' # stats => TickStep]_vars

\* Ticks have counted up to the bound.
C32_Witness ==
    /\ appMounted
    /\ stats.eventsProcessed = MaxEvents
    /\ stats.avgResponseTime >= 150

\* C33: after every tick avgResponseTime is in 150..249, whatever the snapshot
\* before it was, and systemHealth is healthy or degraded in every state.
C33_ResponseTimeBand ==
    /\ [][(TickStep /\ appMounted) => stats'.avgResponseTime \in 150..249]_vars
    /\ [](stats.systemHealth \in {"healthy", "degraded"})

\* A tick has drawn the top of the band and the degraded state.
C33_Witness ==
    /\ stats.avgResponseTime = 249
    /\ stats.systemHealth = "degraded"

\* C34: exactly one timer is set while App is mounted and none while it is
\* not; while App is unmounted the snapshot does not change; a mount starts
\* from the initial snapshot with its own timer.
C34_TickerOnlyWhileMounted ==
    /\ [](appMounted => Cardinality(interval) = 1)
    /\ [](~appMounted => interval = {} /\ ~ENABLED TickStep)
    /\ [][(~appMounted /\ ~appMounted') => stats' = stats]_vars
    /\ [][(~appMounted /\ appMounted') =>
             stats' = InitialStats /\ Cardinality(interval') = 1]_vars

\* App is unmounted with a request still in flight: no timer, no tick.
C34_Witness ==
    /\ ~appMounted
    /\ interval = {}
    /\ orphaned # {}
    /\ ~ENABLED TickStep

\* C35: a tick leaves the record, the error set, the submission state, the
\* session identity and the requests in flight unchanged, and the controls
\* the form offers are the same after it as before; every step that changes
\* anything of the form leaves the snapshot unchanged while App is mounted.
C35_TickerAndFormDisjoint ==
    /\ [][(stats' # stats /\ appMounted /\ appMounted') =>
             /\ TickStep
             /\ UNCHANGED <<formData, formState, sessionId, pending, orphaned>>
             /\ FormRendered' <=> FormRendered
             /\ ControlsEnabled' <=> ControlsEnabled
             /\ SubmitButtonEnabled' <=> SubmitButtonEnabled
             /\ ResetButtonRendered' <=> ResetButtonRendered]_vars
    /\ [][(/\ appMounted'
           /\ <<formData, formState, sessionId, pending>>' #
                  <<formData, formState, sessionId, pending>>) =>
             stats' = stats]_vars

\* Ticks have run while a submission of the filled-in form is in flight.
C35_Witness ==
    /\ Submitting
    /\ pending # {}
    /\ formData.name = SampleName
    /\ stats.eventsProcessed = 1
    /\ stats.avgResponseTime = 150

====
